---------------------------- MODULE Spec2Model ----------------------------
(***************************************************************************)
(* A model of Eve (src/eve.py) and of its error handling (src/handler.py): *)
(* the safe_run wrapper, the reflection that wraps every method of an      *)
(* ErrorHandler instance, the three tools, the dispatch _call_module, the  *)
(* extraction _extract_json with its regular expression and json.loads,    *)
(* and the interactive loop Eve.run.                                       *)
(*                                                                         *)
(* Python str values that come from text (user input, generated text,      *)
(* JSON strings) are sequences of one-character strings; a formatted        *)
(* message or payload is the sequence of the fragments it is made of.      *)
(***************************************************************************)
EXTENDS Integers, Sequences, FiniteSets, TLC

VARIABLES
    pc,           \* position: in Eve.run, or in a direct call of one operation
    user_input,   \* eve.py:320 user_input (the fallback of a direct dispatch)
    text,         \* eve.py:324 text, the generated text handed to _extract_json
    shape,        \* how text was put together: prose, object, prose
    found,        \* eve.py:297 match, as a value: is there a match, and where
    tool,         \* eve.py:300 tool, the parsed request
    response,     \* eve.py:302 response, what _call_module returned
    upstream,     \* what the backing API of the invoked tool did
    events,       \* the external calls of this iteration, in order
    toolCalls,    \* (tool name, argument) of every tool invocation
    chatCalls,    \* the user content of every routing-model call (eve.py:325)
    respondCalls, \* the arguments of every _generate_response call
    displayed,    \* what eve.py:308 printed as the reply
    result,       \* what the last wrapped call returned (or raised)
    func          \* the operation handed to safe_run in a direct call

vars == <<pc, user_input, text, shape, found, tool, response, upstream, events,
          toolCalls, chatCalls, respondCalls, displayed, result, func>>

---------------------------------------------------------------------------
(* Bounds of the inputs.                                                   *)

\* longest prose before the tool object in an enumerated generated text
MaxPre == 2
\* longest prose after the tool object in an enumerated generated text
MaxSuf == 1

---------------------------------------------------------------------------
(* Text.                                                                   *)

QUOTE == "\""
NL == "\n"

get_weather == <<"g", "e", "t", "_", "w", "e", "a", "t", "h", "e", "r">>
get_news == <<"g", "e", "t", "_", "n", "e", "w", "s">>
get_search == <<"g", "e", "t", "_", "s", "e", "a", "r", "c", "h">>
bogus == <<"b", "o", "g", "u", "s">>
toolKey == <<"t", "o", "o", "l">>
inputKey == <<"i", "n", "p", "u", "t">>
delhi == <<"d", "e", "l", "h", "i">>
breakWord == <<"b", "r", "e", "a", "k">>
BreakCapital == <<"B", "r", "e", "a", "k">>
breakSpace == <<" ", "b", "r", "e", "a", "k">>
hi == <<"h", "i">>

\* a JSON string literal: the characters between double quotes
Quoted(s) == <<QUOTE>> \o s \o <<QUOTE>>

\* the characters of s from index a to index b (empty when a > b)
Slice(s, a, b) == IF a > b THEN <<>> ELSE SubSeq(s, a, b)

---------------------------------------------------------------------------
(* Python values.                                                          *)

None == [t |-> "none"]
\* a str: its characters, or the fragments it was formatted from
Str(s) == [t |-> "str", s |-> s]
Dict(d) == [t |-> "dict", d |-> d]
JList == [t |-> "jlist"]
JObj == [t |-> "jobj"]

\* the outcome of running a callable: it returns a value or raises
Ret(v) == [kind |-> "ret", val |-> v]
Raise(cls, msg) == [kind |-> "exc", cls |-> cls, msg |-> msg]

\* the classes caught by "except Exception"
ExceptionClasses == {"RuntimeError", "ConnectionError", "KeyError", "TypeError",
                     "ValueError", "JSONDecodeError", "AttributeError"}
\* BaseException subclasses that are not Exception subclasses
BaseOnlyClasses == {"KeyboardInterrupt", "SystemExit"}

---------------------------------------------------------------------------
(* The regular expression of _extract_json (eve.py:296), searched with     *)
(* re.search (eve.py:297):  \{.*?"tool"\s*:\s*".*?".*?\}                   *)

\* the character at index p, or "" past either end
At(s, p) == IF p \in 1..Len(s) THEN s[p] ELSE ""

Min(S) == CHOOSE x \in S : \A y \in S : x <= y

\* the pattern compiled with re.DOTALL
IsDot_DotAll(c) == TRUE

\* "." matches any character except a newline (no re.DOTALL)
IsDot(c) == c # NL

\* \s
IsSpace(c) == c \in {" ", "\t", "\n", "\r"}

\* .*? can cover s[a..b]: every character in it is matched by "."
DotRun(s, a, b) == \A k \in a..b : IsDot(s[k])

\* the literal lit stands at index j
LiteralAt(s, j, lit) ==
    /\ j >= 1
    /\ j + Len(lit) - 1 <= Len(s)
    /\ SubSeq(s, j, j + Len(lit) - 1) = lit

\* \s* is greedy: the first index at or after i that holds no space.  What
\* follows \s* in the pattern (":" and a double quote) is never a space, so
\* giving back spaces cannot make a match.
RECURSIVE SkipSpaces(_, _)
SkipSpaces(s, i) ==
    IF i <= Len(s) /\ IsSpace(s[i]) THEN SkipSpaces(s, i + 1) ELSE i

\* "tool"\s*:\s*"  from index j: the index of the opening quote of the
\* value, or 0 when this part does not match at j
KeyColonQuote(s, j) ==
    IF ~LiteralAt(s, j, Quoted(toolKey)) THEN 0
    ELSE LET p == SkipSpaces(s, j + Len(toolKey) + 2) IN
         IF At(s, p) # ":" THEN 0
         ELSE LET p2 == SkipSpaces(s, p + 1) IN
              IF At(s, p2) = QUOTE THEN p2 ELSE 0

\* .*?\}  after index q: the indices where the match can end
BraceEnds(s, q) ==
    {e \in (q + 1)..Len(s) : s[e] = "}" /\ DotRun(s, q + 1, e - 1)}

\* .*?".*?\}  after the opening quote at p2: the closing quotes from which
\* the rest of the pattern matches
ClosingQuotes(s, p2) ==
    {q \in (p2 + 1)..Len(s) :
        s[q] = QUOTE /\ DotRun(s, p2 + 1, q - 1) /\ BraceEnds(s, q) # {}}

\* the positions of "tool" from which a match starting at i can be completed
KeyStarts(s, i) ==
    {j \in (i + 1)..Len(s) :
        /\ DotRun(s, i + 1, j - 1)
        /\ KeyColonQuote(s, j) # 0
        /\ ClosingQuotes(s, KeyColonQuote(s, j)) # {}}

\* the end of the match that starts at i, or 0.  Each .*? is lazy: the
\* backtracking takes the first "tool", then the first closing quote, then
\* the first closing brace from which the rest matches.
MatchEnd(s, i) ==
    IF At(s, i) # "{" \/ KeyStarts(s, i) = {} THEN 0
    ELSE LET j == Min(KeyStarts(s, i))
             q == Min(ClosingQuotes(s, KeyColonQuote(s, j)))
         IN  Min(BraceEnds(s, q))

NoMatch == [found |-> FALSE, start |-> 0, end |-> 0]

\* re.search(pattern, generated_text): the leftmost start that matches
Search(s) ==
    LET starts == {i \in 1..Len(s) : MatchEnd(s, i) # 0} IN
    IF starts = {} THEN NoMatch
    ELSE [found |-> TRUE, start |-> Min(starts), end |-> MatchEnd(s, Min(starts))]

\* match.group()
Group(s, m) == Slice(s, m.start, m.end)

---------------------------------------------------------------------------
(* json.loads (eve.py:300) on texts without backslashes, digits or the     *)
(* literals null, true and false: objects, arrays and strings.             *)

ParseFail == [ok |-> FALSE, val |-> None, pos |-> 0]

\* JSON whitespace
IsJsonSpace(c) == c \in {" ", "\t", "\n", "\r"}

RECURSIVE SkipWS(_, _)
SkipWS(s, i) ==
    IF i <= Len(s) /\ IsJsonSpace(s[i]) THEN SkipWS(s, i + 1) ELSE i

\* a string whose opening quote is at i: it ends at the next double quote,
\* and a control character inside it is an error
ParseString(s, i) ==
    LET qs == {q \in (i + 1)..Len(s) : s[q] = QUOTE} IN
    IF At(s, i) # QUOTE \/ qs = {} THEN ParseFail
    ELSE LET q == Min(qs) IN
         IF \E k \in (i + 1)..(q - 1) : s[k] \in {"\n", "\t", "\r"}
         THEN ParseFail
         ELSE [ok |-> TRUE, val |-> Str(Slice(s, i + 1, q - 1)), pos |-> q + 1]

EmptyMembers == [k \in {} |-> None]

RECURSIVE ParseValue(_, _)
RECURSIVE ParseMembers(_, _, _)
RECURSIVE ParseElements(_, _)

\* an object whose "{" is at i; val is the mapping from key to value
ParseObject(s, i) ==
    LET p == SkipWS(s, i + 1) IN
    IF At(s, p) = "}" THEN [ok |-> TRUE, val |-> EmptyMembers, pos |-> p + 1]
    ELSE ParseMembers(s, p, EmptyMembers)

\* an array whose "[" is at i
ParseArray(s, i) ==
    LET p == SkipWS(s, i + 1) IN
    IF At(s, p) = "]" THEN [ok |-> TRUE, val |-> JList, pos |-> p + 1]
    ELSE ParseElements(s, p)

\* a value at i.  A nested object or array is kept as a value that is a
\* dict or a list; its content is not read by the program.
ParseValue(s, i) ==
    CASE At(s, i) = QUOTE -> ParseString(s, i)
      [] At(s, i) = "{" ->
            LET r == ParseObject(s, i) IN
            IF r.ok THEN [ok |-> TRUE, val |-> JObj, pos |-> r.pos] ELSE ParseFail
      [] At(s, i) = "[" -> ParseArray(s, i)
      [] OTHER -> ParseFail

\* the members of an object from the key at p on; a later key replaces an
\* earlier equal key
ParseMembers(s, p, acc) ==
    LET key == ParseString(s, p) IN
    IF ~key.ok THEN ParseFail
    ELSE LET p1 == SkipWS(s, key.pos) IN
         IF At(s, p1) # ":" THEN ParseFail
         ELSE LET v == ParseValue(s, SkipWS(s, p1 + 1)) IN
              IF ~v.ok THEN ParseFail
              ELSE LET p3 == SkipWS(s, v.pos)
                       acc2 == (key.val.s :> v.val) @@ acc
                   IN  CASE At(s, p3) = "}" ->
                                [ok |-> TRUE, val |-> acc2, pos |-> p3 + 1]
                         [] At(s, p3) = "," ->
                                ParseMembers(s, SkipWS(s, p3 + 1), acc2)
                         [] OTHER -> ParseFail

\* the elements of an array from the value at p on
ParseElements(s, p) ==
    LET v == ParseValue(s, p) IN
    IF ~v.ok THEN ParseFail
    ELSE LET p1 == SkipWS(s, v.pos) IN
         CASE At(s, p1) = "]" -> [ok |-> TRUE, val |-> JList, pos |-> p1 + 1]
           [] At(s, p1) = "," -> ParseElements(s, SkipWS(s, p1 + 1))
           [] OTHER -> ParseFail

\* json.loads(s): the value, or a JSONDecodeError.  Text after the value
\* other than whitespace is an error ("Extra data").
JsonLoads(s) ==
    LET p0 == SkipWS(s, 1)
        r == IF At(s, p0) = "{" THEN ParseObject(s, p0) ELSE ParseValue(s, p0)
    IN  IF r.ok /\ SkipWS(s, r.pos) = Len(s) + 1
        THEN Ret(IF At(s, p0) = "{" THEN Dict(r.val) ELSE r.val)
        ELSE Raise("JSONDecodeError", <<"Expecting value">>)

---------------------------------------------------------------------------
(* Generated texts: what the routing model streams back (eve.py:325-333).  *)
(* A text is prose, then possibly an object, then prose.                   *)

\* all sequences over A of length at most n
SeqsUpTo(A, n) == UNION {[1..k -> A] : k \in 0..n}

\* the characters of the prose before the object
PreAlphabet == {"a", "{", "}", "\n"}
\* the characters of the prose after the object
SufAlphabet == {"a", "}"}
\* the number of places between the tokens of the flat object
Places == 1..8

\* the object laid out with line breaks: at each place nothing or a line break
BrokenLayouts == [Places -> {<<>>, <<"\n">>}]

\* json.dumps separators: a space after each colon and after the comma
DumpsLayout == [i \in Places |-> IF i \in {3, 5, 7} THEN <<" ">> ELSE <<>>]
\* a space at every place
SpacedLayout == [i \in Places |-> <<" ">>]
NoLayout == [i \in Places |-> <<>>]

Layouts == BrokenLayouts \cup {DumpsLayout, SpacedLayout}

\* {"tool": "<name>", "input": "<value>"} with layout w[1] after the opening
\* brace, w[2] and w[3] around the first colon, w[4] and w[5] around the
\* comma, w[6] and w[7] around the second colon, w[8] before the closing
\* brace
FlatObject(w, name, value) ==
    <<"{">> \o w[1] \o Quoted(toolKey) \o w[2] \o <<":">> \o w[3]
        \o Quoted(name) \o w[4] \o <<",">> \o w[5] \o Quoted(inputKey) \o w[6]
        \o <<":">> \o w[7] \o Quoted(value) \o w[8] \o <<"}">>

ObjectKinds == {"flat", "nested", "noinput", "malformed", "dupkey", "none"}

\* the object of a shape
ObjectOf(sh) ==
    CASE sh.kind = "flat" -> FlatObject(sh.ws, sh.name, sh.value)
      [] sh.kind = "nested" ->
            \* {"tool":"<name>","input":{"a":"<value>"}}
            <<"{">> \o Quoted(toolKey) \o <<":">> \o Quoted(sh.name) \o <<",">>
                \o Quoted(inputKey) \o <<":", "{">> \o Quoted(<<"a">>) \o <<":">>
                \o Quoted(sh.value) \o <<"}", "}">>
      [] sh.kind = "noinput" ->
            \* {"tool":"<name>"}
            <<"{">> \o Quoted(toolKey) \o <<":">> \o Quoted(sh.name) \o <<"}">>
      [] sh.kind = "malformed" ->
            \* {"tool":"<name>","input":}
            <<"{">> \o Quoted(toolKey) \o <<":">> \o Quoted(sh.name) \o <<",">>
                \o Quoted(inputKey) \o <<":", "}">>
      [] sh.kind = "dupkey" ->
            \* {"tool":"<name>","tool":["<value>"]}
            <<"{">> \o Quoted(toolKey) \o <<":">> \o Quoted(sh.name) \o <<",">>
                \o Quoted(toolKey) \o <<":", "[">> \o Quoted(sh.value)
                \o <<"]", "}">>
      [] OTHER -> <<>>

\* the generated text of a shape
TextOf(sh) == sh.pre \o ObjectOf(sh) \o sh.suf

Shape(pre, kind, ws, name, value, suf) ==
    [pre |-> pre, kind |-> kind, ws |-> ws, name |-> name, value |-> value,
     suf |-> suf]

NoShape == Shape(<<>>, "none", NoLayout, <<>>, <<>>, <<>>)

\* prose that holds a brace-delimited region, on the line of the object and
\* on the line before it
RegionPrefixes == {<<"{", "a", "}", " ">>, <<"{", "a", "}", "\n">>}

\* the texts on which the extraction is examined by itself
ExtractShapes ==
    {Shape(pre, "flat", ws, get_weather, delhi, <<>>) :
        pre \in SeqsUpTo(PreAlphabet, MaxPre) \cup RegionPrefixes,
        ws \in Layouts}
    \cup
    {Shape(pre, kind, NoLayout, get_weather, value, suf) :
        pre \in SeqsUpTo(PreAlphabet, MaxPre),
        kind \in ObjectKinds,
        value \in {delhi, <<>>},
        suf \in SeqsUpTo(SufAlphabet, MaxSuf)}

---------------------------------------------------------------------------
(* handler.py                                                              *)

\* a bound method as safe_run sees it: its __name__ and what running it does
Method(name, out) == [name |-> name, hasName |-> TRUE, out |-> out]

\* traceback.format_exc(): text naming the exception and its message
FormatExc(out) == Str(<<"Traceback (most recent call last): ", out.cls, ": ">> \o out.msg)

\* safe_run whose handler builds and prints error_data but does not return it
SafeRun_NoReturn(f) ==
    IF f.out.kind = "ret" THEN f.out
    ELSE IF f.out.cls \notin ExceptionClasses THEN f.out
    ELSE IF ~f.hasName
         THEN Raise("AttributeError", <<"object has no attribute '__name__'">>)
    ELSE Ret(None)

\* safe_run(func)(*args, **kwargs), handler.py:8-21.  "except Exception"
\* lets a BaseException that is no Exception pass, and the handler reads
\* func.__name__, which raises AttributeError when func has none.
SafeRun(f) ==
    IF f.out.kind = "ret" THEN f.out
    ELSE IF f.out.cls \notin ExceptionClasses THEN f.out
    ELSE IF ~f.hasName
         THEN Raise("AttributeError", <<"object has no attribute '__name__'">>)
    ELSE Ret(Dict([success |-> FALSE,
                   error |-> Str(f.out.msg),
                   function |-> Str(<<f.name>>),
                   trace |-> FormatExc(f.out)]))

\* output_json, handler.py:30-31
output_json(success, res) == Dict([success |-> success, data |-> res])

\* dir(self) when ErrorHandler.__init__ runs, first in every subclass
\* __init__: the attributes of the classes, no instance attribute yet
DirNames ==
    {"__init__", "__class__", "__doc__", "__dict__", "__module__",
     "_wrap_modules",
     "_fetch_weather", "_format_data", "main",
     "_news_format", "_filter_data", "_fetch_news",
     "_scrape_webpage", "_get_webpage", "_do_google_search",
     "_call_module", "_generate_response", "_extract_json", "run"}

\* attr_name.startswith("__"), handler.py:46
StartsWithDunder(name) ==
    name \in {"__init__", "__class__", "__doc__", "__dict__", "__module__"}

\* callable(attr), handler.py:49
IsCallable(name) == name \notin {"__doc__", "__dict__", "__module__"}

\* _wrap_modules that skips every name starting with one underscore
IsWrapped_PublicOnly(name) == name \in {"main", "run"}

\* _wrap_modules, handler.py:44-50: is the attribute replaced by its wrapper
IsWrapped(name) ==
    name \in DirNames /\ ~StartsWithDunder(name) /\ IsCallable(name)

\* self.<name>(...) on a constructed instance: the instance attribute set by
\* _wrap_modules shadows the method of the class
Call(name, out) == IF IsWrapped(name) THEN SafeRun(Method(name, out)) ELSE out

\* d.get(key, default) of a dict
Get(d, key, default) == IF key \in DOMAIN d THEN d[key] ELSE default

\* isinstance(data, dict) and data.get('success') is False, eve.py:98/141/182
IsFailureDict(v) ==
    v.t = "dict" /\ "success" \in DOMAIN v.d /\ v.d.success = FALSE

\* the last three lines of every tool's main, eve.py:98-100/141-143/182-184
MainResult(data) ==
    IF IsFailureDict(data)
    THEN output_json(FALSE, Get(data.d, "error", None))
    ELSE output_json(TRUE, data)

\* str(value) inside an f-string or format()
Format(v) == IF v.t = "str" THEN v.s ELSE <<"<", v.t, ">">>

---------------------------------------------------------------------------
(* What a backing API can do on requests.get.                              *)

\* ok: status 200 and the expected JSON; malformed: status 200 and JSON
\* without the expected keys; notjson: status 200 and a body that is not
\* JSON; status: not status 200; network: requests.get raises
ApiOutcomes == {"ok", "malformed", "notjson", "status", "network"}

NetworkError == Raise("ConnectionError", <<"connection failed">>)
NotJsonError == Raise("JSONDecodeError", <<"Expecting value: line 1 column 1 (char 0)">>)

---------------------------------------------------------------------------
(* Weather, eve.py:59-100                                                  *)

WeatherUpstreams == ApiOutcomes

WeatherJson ==
    Dict([location |-> Str(<<"Chandigarh">>), current |-> Str(<<"sunny">>),
          forecast |-> Str(<<"rain">>)])

\* _fetch_weather, eve.py:66-71
FetchWeather(location, up) ==
    CASE up = "network" -> NetworkError
      [] up = "notjson" -> NotJsonError
      [] up = "ok" -> Ret(WeatherJson)
      [] up = "malformed" -> Ret(Dict([message |-> Str(<<"no data">>)]))
      [] OTHER ->
            Raise("RuntimeError",
                  <<"Weather Module doesn't work with status code ", "401",
                    " and content ", "bad key">>)

\* _format_data, eve.py:73-93: data['location'] is read first
FormatData(data) ==
    IF data.t # "dict" THEN Raise("TypeError", <<"not subscriptable">>)
    ELSE IF "location" \notin DOMAIN data.d THEN Raise("KeyError", <<"'location'">>)
    ELSE IF "current" \notin DOMAIN data.d THEN Raise("KeyError", <<"'current'">>)
    ELSE IF "forecast" \notin DOMAIN data.d THEN Raise("KeyError", <<"'forecast'">>)
    ELSE Ret(Str(<<"Currently, it's ">> \o data.d.current.s \o <<" in ">>
                 \o data.d.location.s \o <<". Today's forecast: ">>
                 \o data.d.forecast.s))

\* Weather.main, eve.py:96-100
WeatherMain(location, up) ==
    LET fetched == Call("_fetch_weather", FetchWeather(location, up)) IN
    IF fetched.kind = "exc" THEN fetched
    ELSE LET data == Call("_format_data", FormatData(fetched.val)) IN
         IF data.kind = "exc" THEN data ELSE Ret(MainResult(data.val))

---------------------------------------------------------------------------
(* News, eve.py:107-143                                                    *)

\* baditem: status 200 and an article without the expected fields
NewsUpstreams == ApiOutcomes \cup {"baditem"}

GoodArticle == Dict([source |-> Str(<<"BBC">>), description |-> Str(<<"story">>),
                     url |-> Str(<<"http://bbc">>)])
BadArticle == Dict([title |-> Str(<<"story">>)])

\* _news_format, eve.py:114-115
NewsFormat(news) ==
    IF "source" \notin DOMAIN news.d THEN Raise("KeyError", <<"'source'">>)
    ELSE Ret(Str(<<"*">> \o news.d.source.s \o <<"*\n ">> \o news.d.description.s
                 \o <<"\nLink:- ">> \o news.d.url.s \o <<"\n">>))

\* "\n".join(items): every item must be a str
RECURSIVE Join(_)
Join(items) ==
    IF items = <<>> THEN <<>>
    ELSE IF Len(items) = 1 THEN items[1].s
    ELSE items[1].s \o <<"\n">> \o Join(Tail(items))

\* _filter_data, eve.py:117-119, over the first ten articles
FilterData(data) ==
    IF "articles" \notin DOMAIN data.d THEN Raise("KeyError", <<"'articles'">>)
    ELSE LET arts == data.d.articles
             outs == [i \in 1..Len(arts) |-> Call("_news_format", NewsFormat(arts[i]))]
         IN  IF \E i \in 1..Len(arts) : outs[i].kind = "exc"
             THEN outs[Min({i \in 1..Len(arts) : outs[i].kind = "exc"})]
             ELSE IF \E i \in 1..Len(arts) : outs[i].val.t # "str"
             THEN Raise("TypeError",
                        <<"sequence item 0: expected str instance, dict found">>)
             ELSE Ret(Str(Join([i \in 1..Len(arts) |-> outs[i].val])))

\* _fetch_news, eve.py:121-136
FetchNews(topic, up) ==
    CASE up = "network" -> NetworkError
      [] up = "notjson" -> NotJsonError
      [] up = "ok" -> Call("_filter_data", FilterData(Dict([articles |-> <<GoodArticle>>])))
      [] up = "baditem" -> Call("_filter_data", FilterData(Dict([articles |-> <<BadArticle>>])))
      [] up = "malformed" -> Call("_filter_data", FilterData(Dict([status |-> Str(<<"ok">>)])))
      [] OTHER ->
            Raise("RuntimeError",
                  <<"News API Error:\nTopic: '">> \o Format(topic)
                      \o <<"'\nStatus Code: ", "401", "\nMessage: ", "bad key">>)

\* News.main, eve.py:139-143
NewsMain(topic, up) ==
    LET data == Call("_fetch_news", FetchNews(topic, up)) IN
    IF data.kind = "exc" THEN data ELSE Ret(MainResult(data.val))

---------------------------------------------------------------------------
(* GoogleSearch, eve.py:151-184                                            *)

\* page_network: the request for the result page raises; page_malformed:
\* the page has no div with id mw-content-text
SearchUpstreams == ApiOutcomes \cup {"page_network", "page_malformed"}

\* _scrape_webpage, eve.py:159-164
ScrapeWebpage(up) ==
    IF up = "page_malformed"
    THEN Raise("AttributeError", <<"'NoneType' object has no attribute 'find_all'">>)
    ELSE Ret(Str(<<"Elon Musk is a businessman">>))

\* _get_webpage, eve.py:168-170
GetWebpage(up) ==
    IF up = "page_network" THEN NetworkError
    ELSE Call("_scrape_webpage", ScrapeWebpage(up))

\* _do_google_search, eve.py:172-178
DoGoogleSearch(topic, up) ==
    CASE up = "network" -> NetworkError
      [] up = "notjson" -> NotJsonError
      [] up = "malformed" -> Raise("KeyError", <<"'items'">>)
      [] up = "status" ->
            Raise("RuntimeError",
                  <<"Error in Google search with status code : ", "401",
                    " Message : ", "bad key">>)
      [] OTHER -> Call("_get_webpage", GetWebpage(up))

\* GoogleSearch.main, eve.py:180-184
SearchMain(topic, up) ==
    LET data == Call("_do_google_search", DoGoogleSearch(topic, up)) IN
    IF data.kind = "exc" THEN data ELSE Ret(MainResult(data.val))

---------------------------------------------------------------------------
(* Eve, eve.py:212-336                                                     *)

\* the keys of self.TOOLS, eve.py:234-238
ToolNames == {get_weather, get_news, get_search}

\* what each tool's backing API can do
UpstreamsOf(name) ==
    CASE name = get_weather -> WeatherUpstreams
      [] name = get_news -> NewsUpstreams
      [] OTHER -> SearchUpstreams

\* self.TOOLS[tool_name](input_value), eve.py:258-259: the values of TOOLS are
\* the main attributes of the constructed instances, which are wrapped
ToolFunc(name, input_value, up) ==
    CASE name = get_weather -> Call("main", WeatherMain(input_value, up))
      [] name = get_news -> Call("main", NewsMain(input_value, up))
      [] OTHER -> Call("main", SearchMain(input_value, up))

\* tool_dict.get('tool'), eve.py:254
ToolNameOf(tool_dict) == Get(tool_dict.d, toolKey, None)

\* tool_dict.get('input') or user_input
InputValueOf_OrFallback(tool_dict, fallback) ==
    IF inputKey \in DOMAIN tool_dict.d /\ tool_dict.d[inputKey] # Str(<<>>)
    THEN tool_dict.d[inputKey]
    ELSE Str(fallback)

\* tool_dict.get('input', user_input), eve.py:255
InputValueOf(tool_dict, fallback) == Get(tool_dict.d, inputKey, Str(fallback))

\* hash(value) raises TypeError for a list and for a dict
IsHashable(v) == v.t \notin {"jlist", "jobj", "dict"}

\* a registry built without its get_search entry
IsRegistered_WithoutSearch(tool_name) ==
    tool_name.t = "str" /\ tool_name.s \in {get_weather, get_news}

\* tool_name in self.TOOLS, eve.py:257, for a hashable tool_name
IsRegistered(tool_name) == tool_name.t = "str" /\ tool_name.s \in ToolNames

UnknownFunction == Dict([success |-> FALSE, data |-> Str(<<"unknown function called">>)])

\* the tool invocations of _call_module: (name, argument), in order
CallModuleInvokes(tool_dict, fallback) ==
    LET tool_name == ToolNameOf(tool_dict) IN
    IF IsHashable(tool_name) /\ IsRegistered(tool_name)
    THEN <<[name |-> tool_name.s, arg |-> InputValueOf(tool_dict, fallback)]>>
    ELSE <<>>

\* _call_module, eve.py:243-262
CallModule(tool_dict, fallback, up) ==
    LET tool_name == ToolNameOf(tool_dict)
        input_value == InputValueOf(tool_dict, fallback)
    IN  IF ~IsHashable(tool_name)
        THEN Raise("TypeError", <<"unhashable type: '", tool_name.t, "'">>)
        ELSE IF IsRegistered(tool_name)
        THEN ToolFunc(tool_name.s, input_value, up)
        ELSE Ret(UnknownFunction)

\* what the responder model can do on ollama.chat: answer, raise on the call,
\* or raise while its stream is read
ChatOutcomes == {"ok", "call_fails", "stream_fails"}

OllamaError == Raise("ConnectionError", <<"ollama: connection failed">>)

\* len(data) and data[:1000], eve.py:276/285, need a sized value
IsSized(v) == v.t \in {"str", "jlist", "jobj", "dict"}

\* does _generate_response reach ollama.chat: the message is formatted first
RespondReachesChat(data) == IsSized(data)

\* _generate_response, eve.py:264-285
GenerateResponse(tool_response, user_text, data, chat) ==
    IF ~IsSized(data) THEN Raise("TypeError", <<"object of type '", data.t, "' has no len()">>)
    ELSE IF chat # "ok" THEN OllamaError
    ELSE Ret(None)

NotYet == [kind |-> "none"]

\* response[key], eve.py:304-305
Subscript(v, key) ==
    IF v.t # "dict" THEN Raise("TypeError", <<"not subscriptable">>)
    ELSE IF key \notin DOMAIN v.d THEN Raise("KeyError", <<"'", key, "'">>)
    ELSE Ret(v.d[key])

\* what _extract_json has done when it has only searched: m is the match
Quiet(m) ==
    [found |-> m, tool |-> NotYet, response |-> NotYet, toolCalls |-> <<>>,
     respondCalls |-> <<>>, events |-> <<>>, displayed |-> <<>>, out |-> Ret(None)]

\* eve.py:306: self._generate_response(succes, user_text, data)
ExtractRespond(done, user_text, succes, data, chat) ==
    [done EXCEPT
        !.respondCalls = <<[success |-> succes, user_text |-> user_text, data |-> data]>>,
        !.events = IF RespondReachesChat(data) THEN @ \o <<"respond">> ELSE @,
        !.out = Call("_generate_response",
                     GenerateResponse(succes, user_text, data, chat))]

\* _extract_json that answers only for a tool that succeeded
ExtractRead_OnlyOnSuccess(done, user_text, succes, data, chat) ==
    IF succes.kind = "exc" THEN [done EXCEPT !.out = succes]
    ELSE IF data.kind = "exc" THEN [done EXCEPT !.out = data]
    ELSE IF succes.val = FALSE THEN done
    ELSE ExtractRespond(done, user_text, succes.val, data.val, chat)

\* eve.py:304-305: succes = response['success'], data = response['data']
ExtractRead(done, user_text, succes, data, chat) ==
    IF succes.kind = "exc" THEN [done EXCEPT !.out = succes]
    ELSE IF data.kind = "exc" THEN [done EXCEPT !.out = data]
    ELSE ExtractRespond(done, user_text, succes.val, data.val, chat)

\* eve.py:302-303: response = self._call_module(tool, user_text)
ExtractDispatch(done, user_text, resp, invokes, chat) ==
    IF resp.kind = "exc"
    THEN [done EXCEPT !.response = resp, !.toolCalls = invokes,
                      !.events = <<"dispatch">> \o [i \in 1..Len(invokes) |-> "tool"],
                      !.out = resp]
    ELSE ExtractRead([done EXCEPT !.response = resp, !.toolCalls = invokes,
                         !.events = <<"dispatch">> \o [i \in 1..Len(invokes) |-> "tool"]],
                     user_text, Subscript(resp.val, "success"),
                     Subscript(resp.val, "data"), chat)

\* eve.py:300-301: tool = json.loads(match.group())
ExtractParse(done, user_text, parsed, up, chat) ==
    IF parsed.kind = "exc" THEN [done EXCEPT !.tool = parsed, !.out = parsed]
    ELSE ExtractDispatch([done EXCEPT !.tool = parsed], user_text,
                         Call("_call_module", CallModule(parsed.val, user_text, up)),
                         CallModuleInvokes(parsed.val, user_text), chat)

\* eve.py:299-308: if match ... else print the generated text
ExtractMatch(generated_text, user_text, m, up, chat) ==
    IF ~m.found
    THEN [Quiet(m) EXCEPT !.displayed = <<generated_text>>, !.events = <<"display">>]
    ELSE ExtractParse(Quiet(m), user_text, JsonLoads(Group(generated_text, m)), up, chat)

\* _extract_json, eve.py:287-308: what it returns or raises (out), and
\* everything it does on the way
ExtractJson(generated_text, user_text, up, chat) ==
    ExtractMatch(generated_text, user_text, Search(generated_text), up, chat)

\* the tool invocations _extract_json makes on this text
InvokesOf(parsed, user_text) ==
    IF parsed.kind = "ret" THEN CallModuleInvokes(parsed.val, user_text) ELSE <<>>

\* the outcomes of the backing API that matter to the tool invoked
UpstreamsFor(invokes) ==
    IF invokes = <<>> THEN {"unused"} ELSE UpstreamsOf(invokes[1].name)

\* the parsed request of a match, if there is a match
ParsedOf(generated_text, m) ==
    IF m.found THEN JsonLoads(Group(generated_text, m)) ELSE NotYet

\* the upstream outcomes that matter to _extract_json on this text: those of
\* the tool it invokes, or none
UpstreamChoices(generated_text, user_text) ==
    UpstreamsFor(InvokesOf(ParsedOf(generated_text, Search(generated_text)), user_text))

\* the responder outcomes that matter: those of the responder when it is
\* reached, or none
ChatChoices(generated_text) ==
    IF Search(generated_text).found THEN ChatOutcomes ELSE {"ok"}

---------------------------------------------------------------------------
(* Eve.run, eve.py:310-336, as launched at eve.py:340-342                  *)

\* what the user can type at the prompt
UserInputs == {breakWord, BreakCapital, breakSpace, hi}

\* what the routing model can answer in the loop
LoopShapes ==
    {Shape(<<"a">>, "none", NoLayout, <<>>, <<>>, <<>>)}
    \cup {Shape(<<>>, kind, NoLayout, name, value, <<>>) :
            kind \in {"flat", "noinput"},
            name \in ToolNames \cup {bogus},
            value \in {delhi, <<>>}}
    \cup {Shape(<<"a">>, kind, NoLayout, get_weather, delhi, <<"a">>) :
            kind \in {"flat", "nested", "malformed", "dupkey"}}

NoUpstream == [api |-> "unused", chat |-> "unused"]

\* where Eve.run is after an exception reached it: its wrapper returns the
\* error data and the module ends, or the exception leaves the wrapper
AfterRun(out) == IF out.kind = "ret" THEN "returned" ELSE "crashed"

\* user_input.lower() == 'break'
IsBreak_IgnoresCase(inp) == inp \in {breakWord, BreakCapital}

\* user_input == 'break', eve.py:321
IsBreak(inp) == inp = breakWord

Init ==
    /\ pc = "prompt"
    /\ user_input = <<>>
    /\ text = <<>>
    /\ shape = NoShape
    /\ found = NoMatch
    /\ tool = NotYet
    /\ response = NotYet
    /\ upstream = NoUpstream
    /\ events = <<>>
    /\ toolCalls = <<>>
    /\ chatCalls = <<>>
    /\ respondCalls = <<>>
    /\ displayed = <<>>
    /\ result = NotYet
    /\ func = Method("run", NotYet)

\* eve.py:319-324: read the input, leave the loop on "break"
Prompt ==
    /\ pc = "prompt"
    /\ \E inp \in UserInputs :
        /\ user_input' = inp
        /\ IF IsBreak(inp)
           THEN /\ result' = Call("run", Ret(None))
                /\ pc' = AfterRun(result')
           ELSE /\ result' = NotYet
                /\ pc' = "route"
    /\ text' = <<>>
    /\ shape' = NoShape
    /\ found' = NoMatch
    /\ tool' = NotYet
    /\ response' = NotYet
    /\ upstream' = NoUpstream
    /\ events' = <<>>
    /\ toolCalls' = <<>>
    /\ chatCalls' = <<>>
    /\ respondCalls' = <<>>
    /\ displayed' = <<>>
    /\ UNCHANGED func

\* eve.py:325-335: ask the routing model and read its stream
Route ==
    /\ pc = "route"
    /\ chatCalls' = <<user_input>>
    /\ events' = <<"chat">>
    /\ \E chat \in ChatOutcomes :
        IF chat = "ok"
        THEN \E sh \in LoopShapes :
                /\ shape' = sh
                /\ text' = TextOf(sh)
                /\ pc' = "extract"
                /\ UNCHANGED result
        ELSE /\ result' = Call("run", OllamaError)
             /\ pc' = AfterRun(result')
             /\ UNCHANGED <<shape, text>>
    /\ UNCHANGED <<user_input, found, tool, response, upstream, toolCalls,
                   respondCalls, displayed, func>>

\* what the caller of self._extract_json gets when its body did r
ExtractOut(r) == Call("_extract_json", r.out)

\* the state after self._extract_json(text, user_input) did r; at "extract"
\* the call is that of eve.py:336, whose value Eve.run drops
ExtractDone(at, r) ==
    /\ found' = r.found
    /\ tool' = r.tool
    /\ response' = r.response
    /\ toolCalls' = r.toolCalls
    /\ respondCalls' = r.respondCalls
    /\ events' = events \o r.events
    /\ displayed' = r.displayed
    /\ IF at # "extract" THEN /\ result' = ExtractOut(r)
                              /\ pc' = "called"
       ELSE IF ExtractOut(r).kind = "ret" THEN /\ result' = ExtractOut(r)
                                               /\ pc' = "prompt"
       ELSE /\ result' = Call("run", ExtractOut(r))
            /\ pc' = AfterRun(result')

\* self._extract_json(text, user_input) with the outcomes of the outside
\* world drawn from ups and chats
ExtractStep(at, ups, chats) ==
    /\ pc = at
    /\ \E up \in ups, chat \in chats :
        /\ upstream' = [api |-> up, chat |-> chat]
        /\ ExtractDone(at, ExtractJson(text, user_input, up, chat))
    /\ UNCHANGED <<user_input, text, shape, chatCalls, func>>

\* eve.py:336
Extract ==
    ExtractStep("extract", UpstreamChoices(text, user_input), ChatChoices(text))

Next == Prompt \/ Route \/ Extract

Spec == Init /\ [][Next]_vars

---------------------------------------------------------------------------
(* _extract_json called by itself on enumerated generated texts            *)

InitExtract ==
    /\ pc = "extract_json"
    /\ user_input = hi
    /\ shape \in ExtractShapes
    /\ text = TextOf(shape)
    /\ found = NoMatch
    /\ tool = NotYet
    /\ response = NotYet
    /\ upstream = NoUpstream
    /\ events = <<>>
    /\ toolCalls = <<>>
    /\ chatCalls = <<>>
    /\ respondCalls = <<>>
    /\ displayed = <<>>
    /\ result = NotYet
    /\ func = Method("_extract_json", NotYet)

\* eve._extract_json(text, user_input) while the backing APIs and the
\* responder answer
DirectExtract == ExtractStep("extract_json", {"ok"}, {"ok"})

SpecExtract == InitExtract /\ [][DirectExtract]_vars

---------------------------------------------------------------------------
(* _call_module called by itself on enumerated requests                    *)

\* the values a request can hold under "tool"
ToolValues == {Str(n) : n \in ToolNames \cup {bogus, <<>>}} \cup {JList, JObj}
\* the values a request can hold under "input"
InputValues == {Str(delhi), Str(<<>>), JList, JObj}

\* requests with and without each of the two keys
Requests ==
    {EmptyMembers}
    \cup {(toolKey :> tv) : tv \in ToolValues}
    \cup {(inputKey :> iv) : iv \in InputValues}
    \cup {(toolKey :> tv) @@ (inputKey :> iv) : tv \in ToolValues, iv \in InputValues}

\* the fallback texts
Fallbacks == {<<>>, hi}

InitDispatch ==
    /\ pc = "call_module"
    /\ user_input \in Fallbacks
    /\ tool \in {Ret(Dict(d)) : d \in Requests}
    /\ text = <<>>
    /\ shape = NoShape
    /\ found = NoMatch
    /\ response = NotYet
    /\ upstream = NoUpstream
    /\ events = <<>>
    /\ toolCalls = <<>>
    /\ chatCalls = <<>>
    /\ respondCalls = <<>>
    /\ displayed = <<>>
    /\ result = NotYet
    /\ func = Method("_call_module", NotYet)

\* eve._call_module(tool_dict, user_input)
DirectCallModule ==
    /\ pc = "call_module"
    /\ \E up \in UpstreamsFor(CallModuleInvokes(tool.val, user_input)) :
        /\ response' = Call("_call_module", CallModule(tool.val, user_input, up))
        /\ upstream' = [api |-> up, chat |-> "unused"]
    /\ toolCalls' = CallModuleInvokes(tool.val, user_input)
    /\ events' = <<"dispatch">> \o [i \in 1..Len(toolCalls') |-> "tool"]
    /\ result' = response'
    /\ pc' = "called"
    /\ UNCHANGED <<user_input, text, shape, found, tool, chatCalls, respondCalls,
                   displayed, func>>

SpecDispatch == InitDispatch /\ [][DirectCallModule]_vars

---------------------------------------------------------------------------
(* safe_run applied to an arbitrary operation                              *)

\* the values an operation returns
ReturnValues == {None, Str(<<"text">>), UnknownFunction, JList}
\* the messages an operation fails with
Messages == {<<>>, <<"boom">>}
\* the names of the operations; "" stands for a callable without __name__
FuncNames == {"main", "run", "op"}

Outcomes ==
    {Ret(v) : v \in ReturnValues}
    \cup {Raise(c, m) : c \in ExceptionClasses \cup BaseOnlyClasses, m \in Messages}

Funcs == [name : FuncNames, hasName : BOOLEAN, out : Outcomes]

InitSafeRun ==
    /\ pc = "safe_run"
    /\ func \in Funcs
    /\ user_input = <<>>
    /\ text = <<>>
    /\ shape = NoShape
    /\ found = NoMatch
    /\ tool = NotYet
    /\ response = NotYet
    /\ upstream = NoUpstream
    /\ events = <<>>
    /\ toolCalls = <<>>
    /\ chatCalls = <<>>
    /\ respondCalls = <<>>
    /\ displayed = <<>>
    /\ result = NotYet

\* safe_run(func)(*args, **kwargs)
ApplySafeRun ==
    /\ pc = "safe_run"
    /\ result' = SafeRun(func)
    /\ pc' = "called"
    /\ UNCHANGED <<user_input, text, shape, found, tool, response, upstream,
                   events, toolCalls, chatCalls, respondCalls, displayed, func>>

SpecSafeRun == InitSafeRun /\ [][ApplySafeRun]_vars

---------------------------------------------------------------------------
(* Properties                                                              *)

\* the number of events ev of this iteration
Count(ev) == Cardinality({i \in 1..Len(events) : events[i] = ev})

\* the error data the wrapper of the method called name makes of the raise out
ErrorData(name, out) ==
    Dict([success |-> FALSE, error |-> Str(out.msg), function |-> Str(<<name>>),
          trace |-> FormatExc(out)])

\* C1 as stated: for any operation and any arguments the wrapped call never
\* raises; it returns the operation's value when the operation returns, and
\* the error envelope {success: false, error, function, trace} when it fails.
C1_TotalForAnyOperation ==
    pc = "called" =>
        /\ result.kind = "ret"
        /\ func.out.kind = "ret" => result = func.out
        /\ func.out.kind = "exc" => result = Ret(ErrorData(func.name, func.out))

\* C1 amended: the wrapped call returns the operation's value when the
\* operation returns; when the operation fails with an Exception and has a
\* __name__ it returns the error envelope; a failure that is a BaseException
\* but no Exception leaves the wrapper as it is, and a failing operation
\* without __name__ makes the wrapper raise AttributeError.
C1_TotalForExceptions ==
    pc = "called" =>
        /\ func.out.kind = "ret" => result = func.out
        /\ (func.out.kind = "exc" /\ func.out.cls \in ExceptionClasses /\ func.hasName)
              => result = Ret(ErrorData(func.name, func.out))
        /\ (func.out.kind = "exc" /\ func.out.cls \notin ExceptionClasses)
              => result = func.out
        /\ (func.out.kind = "exc" /\ func.out.cls \in ExceptionClasses /\ ~func.hasName)
              => (result.kind = "exc" /\ result.cls = "AttributeError")

C1_Witness ==
    /\ pc = "called"
    /\ func.out.kind = "exc"
    /\ func.out.cls = "ValueError"
    /\ func.hasName
    /\ result.kind = "ret"
    /\ result.val.d.success = FALSE

\* C2 as stated: no failure of a step of an iteration ends the loop; the
\* loop ends only when the user input is "break".
C2_OnlyBreakEndsLoop ==
    pc \in {"returned", "crashed"} => user_input = breakWord

\* the request of a direct dispatch
Req == tool.val.d

\* a direct dispatch of a request whose tool name is registered has returned
RegisteredCall ==
    /\ pc = "called"
    /\ toolKey \in DOMAIN Req
    /\ Req[toolKey].t = "str"
    /\ Req[toolKey].s \in ToolNames

\* C3 as stated: a registered tool is invoked exactly once, with
\* request.input when it is present and non-empty and with the fallback
\* otherwise, also when the input is present but empty.
C3_FallbackWhenEmpty ==
    RegisteredCall =>
        /\ Len(toolCalls) = 1
        /\ toolCalls[1].name = Req[toolKey].s
        /\ toolCalls[1].arg =
              IF inputKey \in DOMAIN Req /\ Req[inputKey] # Str(<<>>)
              THEN Req[inputKey] ELSE Str(user_input)

\* C3 amended: a registered tool is invoked exactly once, with request.input
\* whenever the input key is present, also when its value is empty, and with
\* the fallback only when the key is absent.
C3_FallbackWhenAbsent ==
    RegisteredCall =>
        /\ Len(toolCalls) = 1
        /\ toolCalls[1].name = Req[toolKey].s
        /\ toolCalls[1].arg =
              IF inputKey \in DOMAIN Req THEN Req[inputKey] ELSE Str(user_input)

C3_Witness ==
    /\ RegisteredCall
    /\ inputKey \in DOMAIN Req
    /\ Req[inputKey] = Str(<<>>)
    /\ user_input = hi
    /\ toolCalls = <<[name |-> Req[toolKey].s, arg |-> Str(<<>>)]>>

\* C4: dispatching a name that is a key of the registry never returns
\* {success: false, data: "unknown function called"}; dispatching a name
\* that is no key, or a request without a tool name, returns exactly that
\* and invokes no tool.  A name is a string.
C4_RegistryClosure ==
    (pc = "called" /\ Get(Req, toolKey, None).t \in {"str", "none"}) =>
        IF toolKey \in DOMAIN Req /\ Req[toolKey].s \in ToolNames
        THEN response # Ret(UnknownFunction) /\ Len(toolCalls) = 1
        ELSE response = Ret(UnknownFunction) /\ toolCalls = <<>>

C4_Witness ==
    /\ pc = "called"
    /\ toolKey \in DOMAIN Req
    /\ Req[toolKey] = Str(bogus)
    /\ response = Ret(UnknownFunction)
    /\ toolCalls = <<>>

\* C5 as stated: after every dispatch of a request extracted from the model
\* output, what dispatch returned has the fields success and data, success a
\* boolean, and is never the wrapper's error data.
C5_EnvelopeShape ==
    Count("dispatch") > 0 =>
        /\ response.kind = "ret"
        /\ response.val.t = "dict"
        /\ DOMAIN response.val.d = {"success", "data"}
        /\ response.val.d.success \in BOOLEAN

\* the step of a tool that calls its backing API
ApiStep(name, arg, up) ==
    CASE name = get_weather -> FetchWeather(arg, up)
      [] name = get_news -> FetchNews(arg, up)
      [] OTHER -> DoGoogleSearch(arg, up)

\* C6 as stated: when the step of a tool that calls the backing API fails
\* with message m, the tool's main returns {success: false, data: m}.
C6_UpstreamFailureMessage ==
    (pc = "called" /\ toolCalls # <<>>) =>
        (ApiStep(toolCalls[1].name, toolCalls[1].arg, upstream.api).kind = "exc" =>
            response = Ret(output_json(FALSE,
                Str(ApiStep(toolCalls[1].name, toolCalls[1].arg, upstream.api).msg))))

\* _extract_json has run in this iteration
Extracted == upstream.chat # "unused"

\* every responder call comes after a dispatch
RespondAfterDispatch ==
    /\ \A i \in 1..Len(events) :
          events[i] = "respond" => \E j \in 1..(i - 1) : events[j] = "dispatch"
    /\ respondCalls # <<>> => Count("dispatch") = 1

\* what the responder is called with for the envelope that dispatch returned
RespondArgs ==
    [success |-> response.val.d.success, user_text |-> user_input,
     data |-> response.val.d.data]

\* C7 as stated: if the pattern matches, exactly one dispatch happens and
\* then the responder is called exactly once with (success, user text,
\* data); if it does not match, no tool is invoked, the responder is not
\* called and the whole text is displayed; the responder is never called
\* before or without a dispatch.
C7_MatchMeansDispatch ==
    Extracted =>
        /\ found.found =>
              /\ Count("dispatch") = 1
              /\ Len(respondCalls) = 1
              /\ respondCalls[1] = RespondArgs
        /\ ~found.found =>
              (toolCalls = <<>> /\ respondCalls = <<>> /\ displayed = <<text>>)
        /\ RespondAfterDispatch

\* the matched region parsed and its tool value can be looked up
Dispatchable == tool.kind = "ret" /\ IsHashable(ToolNameOf(tool.val))

\* C7 amended: if the pattern matches, the matched region is valid JSON and
\* its tool value is hashable, exactly one dispatch happens and then the
\* responder is called exactly once with (success, user text, data), also
\* when the tool is unknown or failed; if the matched region is not valid
\* JSON, nothing is dispatched, answered or displayed; if its tool value is a
\* list or an object, one dispatch happens and the responder is not called;
\* if the pattern does not match, no tool is invoked, the responder is not
\* called and the whole text is displayed; the responder is never called
\* before or without a dispatch.
C7_ParsedMatchMeansDispatch ==
    Extracted =>
        /\ (found.found /\ Dispatchable) =>
              /\ Count("dispatch") = 1
              /\ Len(respondCalls) = 1
              /\ respondCalls[1] = RespondArgs
              /\ Count("respond") = 1
        /\ (found.found /\ tool.kind = "exc") =>
              /\ Count("dispatch") = 0
              /\ toolCalls = <<>> /\ respondCalls = <<>> /\ displayed = <<>>
        /\ (found.found /\ tool.kind = "ret" /\ ~Dispatchable) =>
              /\ Count("dispatch") = 1
              /\ toolCalls = <<>> /\ respondCalls = <<>> /\ displayed = <<>>
        /\ ~found.found =>
              /\ Count("dispatch") = 0
              /\ toolCalls = <<>> /\ respondCalls = <<>> /\ displayed = <<text>>
        /\ RespondAfterDispatch

C7_Witness ==
    /\ Extracted
    /\ found.found
    /\ response = Ret(UnknownFunction)
    /\ events = <<"chat", "dispatch", "respond">>
    /\ respondCalls = <<[success |-> FALSE, user_text |-> user_input,
                         data |-> Str(<<"unknown function called">>)]>>

\* the pattern matched a region that json.loads rejects
MalformedMatch == Extracted /\ found.found /\ tool.kind = "exc"

\* C8 as stated: the parse failure of a matched region leaves _extract_json
\* uncaught: it is not made a returned value and the loop does not go on to
\* the next prompt.
C8_ParseFailurePropagates ==
    MalformedMatch => (pc # "prompt" /\ result.kind # "ret")

\* C8 amended: the parse failure of a matched region is caught by the wrapper
\* that _wrap_modules put around _extract_json: the call returns the error
\* data {success: false, error: <the parse message>, function:
\* "_extract_json", trace}, nothing is dispatched or answered, and the loop
\* goes on to the next prompt.
C8_ParseFailureCaught ==
    MalformedMatch =>
        /\ pc = "prompt"
        /\ result = Ret(ErrorData("_extract_json", tool))
        /\ Count("dispatch") = 0
        /\ respondCalls = <<>>

C8_Witness ==
    /\ MalformedMatch
    /\ pc = "prompt"
    /\ result.kind = "ret"
    /\ result.val.d.function = Str(<<"_extract_json">>)

\* C9: when the input read is "break" the loop ends in that iteration and
\* neither the routing model nor a tool nor the responder is called; for any
\* other input ("Break" and " break" too) the routing model is called
\* exactly once, with that input, before the next prompt is read.
C9_BreakEndsLoop ==
    /\ user_input = breakWord =>
          /\ pc = "returned"
          /\ result = Ret(None)
          /\ events = <<>>
          /\ chatCalls = <<>> /\ toolCalls = <<>> /\ respondCalls = <<>>
    /\ user_input \in UserInputs \ {breakWord} =>
          /\ pc # "route" => chatCalls = <<user_input>>
          /\ pc = "route" => chatCalls = <<>>
          /\ Count("chat") <= 1

C9_Witness ==
    /\ user_input = breakWord
    /\ pc = "returned"
    /\ chatCalls = <<>>

\* where the object of the generated text stands
ObjStart == Len(shape.pre) + 1
ObjEnd == Len(shape.pre) + Len(ObjectOf(shape))

\* the extracted region is the object
ExtractedObject == found.found /\ found.start = ObjStart /\ found.end = ObjEnd

\* the request {tool: <name>, input: <value>} of the object
RequestOf(sh) == Ret(Dict((toolKey :> Str(sh.name)) @@ (inputKey :> Str(sh.value))))

BraceFree(s) == \A i \in 1..Len(s) : s[i] \notin {"{", "}"}
SingleLine(s) == \A i \in 1..Len(s) : s[i] # NL

\* the prose holds a brace-delimited region
RegionIn(s) ==
    \E i, j \in 1..Len(s) : i < j /\ s[i] = "{" /\ s[j] = "}"

\* the prose holds a brace-delimited region with no line break after its
\* opening brace: the region is on the line on which the object starts
RegionOnLastLine(s) ==
    \E i, j \in 1..Len(s) :
        i < j /\ s[i] = "{" /\ s[j] = "}" /\ \A k \in i..Len(s) : s[k] # NL

\* the flat object has a line break at one of the places ps
BrokenAt(sh, ps) == sh.kind = "flat" /\ \E i \in ps : sh.ws[i] = <<"\n">>

\* C10 as stated: from a single-line text of brace-free prose, one flat tool
\* object and brace-free prose, the extraction yields the request of the
\* object; when a brace-delimited region precedes the object, or the object
\* is nested or spans several lines, the extracted region is not the object.
C10_ExtractsFlatObjectOnly ==
    pc = "called" =>
        /\ (shape.kind = "flat" /\ BraceFree(shape.pre) /\ BraceFree(shape.suf)
                /\ SingleLine(text))
              => (ExtractedObject /\ tool = RequestOf(shape))
        /\ (shape.kind \in {"flat", "nested"}
                /\ (RegionIn(shape.pre) \/ shape.kind = "nested"
                      \/ BrokenAt(shape, Places)))
              => ~ExtractedObject

\* C10 amended: from a single-line text of brace-free prose, one flat tool
\* object and brace-free prose, the extraction yields the request of the
\* object, and so it does when the only line breaks are directly before or
\* after the colon that follows "tool"; when a brace-delimited region
\* precedes the object on the line on which the object starts, or the
\* object is nested, or the object has a line break at any other place
\* between its tokens, the extracted region is not the object.
C10_ExtractsFlatObject ==
    pc = "called" =>
        /\ (shape.kind = "flat" /\ BraceFree(shape.pre) /\ BraceFree(shape.suf)
                /\ SingleLine(shape.pre) /\ SingleLine(shape.suf)
                /\ ~BrokenAt(shape, Places \ {2, 3}))
              => (ExtractedObject /\ tool = RequestOf(shape))
        /\ (shape.kind \in {"flat", "nested"}
                /\ (RegionOnLastLine(shape.pre) \/ shape.kind = "nested"
                      \/ BrokenAt(shape, Places \ {2, 3})))
              => ~ExtractedObject

C10_Witness ==
    /\ pc = "called"
    /\ shape.kind = "flat"
    /\ shape.pre = <<"a">>
    /\ shape.ws[3] = <<"\n">>
    /\ ExtractedObject
    /\ tool = RequestOf(shape)

===========================================================================
